---------------------------- MODULE Spec2Model ----------------------------
(***************************************************************************)
(* Type-level object utilities of src/lib/types/objects.ts.                *)
(*                                                                         *)
(* Every export of the file is a pure function from types to types.  A     *)
(* type is modelled by its structure as the TypeScript checker resolves it *)
(* under strictNullChecks:                                                 *)
(*   - an object type is a function from its property keys to properties,  *)
(*     a property being its value type and its `?` and `readonly`          *)
(*     modifiers;                                                          *)
(*   - a value type is a union: `any` or `unknown` (top), a set of         *)
(*     primitive and unit types (prims), a set of object types (objs) and  *)
(*     the unevaluated instantiations DeepMapValues<any, X> (mappedAny);   *)
(*   - a union of property keys is the set of those keys.                  *)
(* The type of an optional property includes `undefined`, as it does for   *)
(* the checker, so `a?: string` and `a?: string | undefined` are one type. *)
(*                                                                         *)
(* The state machine is the checker instantiating the aliases: the state   *)
(* holds the type arguments, the alias last instantiated and its result.   *)
(***************************************************************************)
EXTENDS Naturals, FiniteSets, Sequences

VARIABLES
    src,     \* TSrcObj / TObj / TObj1: the object type the alias is applied to
    arg,     \* TObj2 of Merge
    arg3,    \* TObj2 of the outer Merge of a nested instantiation
    keys,    \* TKeys / TKeysUnion / TPrevKey: a union of keys
    keys2,   \* TKeysUnion of the outer RemoveKeys of a nested instantiation
    newKey,  \* TNewKey of RenameKey: a union of keys
    val,     \* TMappedValue / TNewValue
    op,      \* the alias instantiated last, "none" before the first
    out,     \* the object type the instantiation denotes
    outv     \* the value type the instantiation denotes (ValueOf)

vars == <<src, arg, arg3, keys, keys2, newKey, val, op, out, outv>>

(***************************************************************************)
(* Bounds of the model.                                                    *)
(***************************************************************************)
NumKeys == 2        \* property keys an argument type may declare
MaxDepth == 1       \* levels of nested object types in a DeepMapValues argument

KeyNames == <<"a", "b", "c", "d", "e">>
Keys == {KeyNames[i] : i \in 1..NumKeys}
FreshKey == "z"     \* a property key no argument type declares
PropertyKeys == Keys \cup {FreshKey}

(***************************************************************************)
(* Value types.                                                            *)
(***************************************************************************)
Never == [top |-> "none", prims |-> {}, objs |-> {}, mappedAny |-> {}]
AnyT == [top |-> "any", prims |-> {}, objs |-> {}, mappedAny |-> {}]
UnknownT == [top |-> "unknown", prims |-> {}, objs |-> {}, mappedAny |-> {}]
Prim(p) == [top |-> "none", prims |-> {p}, objs |-> {}, mappedAny |-> {}]
StringT == Prim("string")
NumberT == Prim("number")
UndefinedT == Prim("undefined")
ObjT(o) == [top |-> "none", prims |-> {}, objs |-> {o}, mappedAny |-> {}]
MappedAnyT(x) == [top |-> "none", prims |-> {}, objs |-> {}, mappedAny |-> {x}]

\* s | t
Union(s, t) ==
    IF s.top = "any" \/ t.top = "any" THEN AnyT
    ELSE IF s.top = "unknown" \/ t.top = "unknown" THEN UnknownT
    ELSE [top |-> "none",
          prims |-> s.prims \cup t.prims,
          objs |-> s.objs \cup t.objs,
          mappedAny |-> s.mappedAny \cup t.mappedAny]

\* A property declaration `readonly? k?: t`; the type of an optional
\* property includes undefined.
Prop(t, o, r) ==
    [type |-> IF o THEN Union(t, UndefinedT) ELSE t, optional |-> o, readonly |-> r]

EmptyObj == [k \in {} |-> Prop(Never, FALSE, FALSE)]

(***************************************************************************)
(* The checker's built-in operators the aliases are written with.          *)
(***************************************************************************)
\* keyof T
KeyOf(T) == DOMAIN T

\* Extract<U, V>: the members of U assignable to V
Extract(U, V) == {k \in U : k \in V}

\* Exclude<U, V> on unions of keys: the members of U not assignable to V
Exclude(U, V) == {k \in U : k \notin V}

\* { [P in K]: T[P] } with K not tied to keyof T: the modifiers are lost
PickDroppingModifiers(T, K) == [k \in K |-> [type |-> T[k].type, optional |-> FALSE, readonly |-> FALSE]]

\* Pick<T, K> = { [P in K]: T[P] } with K extends keyof T: a homomorphic
\* mapped type, which keeps each property's modifiers
Pick(T, K) == [k \in K |-> T[k]]

RECURSIVE UnionAll(_)
UnionAll(S) ==
    IF S = {} THEN Never
    ELSE LET t == CHOOSE u \in S : TRUE IN Union(t, UnionAll(S \ {t}))

\* T[K] for a union of keys K: the union of the properties' types
IndexedAccess(T, K) == UnionAll({T[k].type : k \in K})

RECURSIVE Intersect(_, _), IntersectTypes(_, _)
\* s & t on value types.  An object type intersected with a primitive has no
\* plain object form and is left out of the result.
IntersectTypes(s, t) ==
    IF s = Never \/ t = Never THEN Never
    ELSE IF s.top = "any" \/ t.top = "any" THEN AnyT
    ELSE IF s.top = "unknown" THEN t
    ELSE IF t.top = "unknown" THEN s
    ELSE [top |-> "none",
          prims |-> s.prims \cap t.prims,
          objs |-> {Intersect(o1, o2) : o1 \in s.objs, o2 \in t.objs},
          mappedAny |-> s.mappedAny \cap t.mappedAny]

\* A & B on object types: the properties of both; a property of both has the
\* intersection of the two types, is optional when both are and readonly
\* when either is
Intersect(A, B) ==
    [k \in KeyOf(A) \cup KeyOf(B) |->
        IF k \in KeyOf(A) /\ k \in KeyOf(B)
        THEN [type |-> IntersectTypes(A[k].type, B[k].type),
              optional |-> A[k].optional /\ B[k].optional,
              readonly |-> A[k].readonly \/ B[k].readonly]
        ELSE IF k \in KeyOf(A) THEN A[k] ELSE B[k]]

(***************************************************************************)
(* The aliases of objects.ts.                                              *)
(***************************************************************************)
\* Obj<TValue, TKeys> = Record<TKeys, TValue> = { [P in TKeys]: TValue }:
\* not homomorphic, every property required and mutable
Obj(TValue, TKeys) == [k \in TKeys |-> Prop(TValue, FALSE, FALSE)]

\* ValueOf<TObj> = TObj[keyof TObj]
ValueOf(TObj) == IndexedAccess(TObj, KeyOf(TObj))

\* { [TKey in keyof TSrcObj]: TMappedValue }: homomorphic, keeps the modifiers
MapValuesKeepingModifiers(TSrcObj, TMappedValue) ==
    [k \in KeyOf(TSrcObj) |->
        [type |-> IF TSrcObj[k].optional THEN Union(TMappedValue, UndefinedT)
                  ELSE TMappedValue,
         optional |-> TSrcObj[k].optional, readonly |-> TSrcObj[k].readonly]]

\* MapValues<TSrcObj, TMappedValue> = Obj<TMappedValue, keyof TSrcObj>
MapValues(TSrcObj, TMappedValue) == Obj(TMappedValue, KeyOf(TSrcObj))

\* TObj1 & TObj2
MergeWithoutExclude(TObj1, TObj2) == Intersect(TObj1, TObj2)

\* The keys of each operand the other lacks
MergeExcludingBoth(TObj1, TObj2) ==
    Intersect(Pick(TObj1, Exclude(KeyOf(TObj1), KeyOf(TObj2))),
              Pick(TObj2, Exclude(KeyOf(TObj2), KeyOf(TObj1))))

\* Merge<TObj1, TObj2> = Pick<TObj1, Exclude<keyof TObj1, keyof TObj2>> & TObj2
Merge(TObj1, TObj2) ==
    Intersect(Pick(TObj1, Exclude(KeyOf(TObj1), KeyOf(TObj2))), TObj2)

\* Merge<Obj<TNewValue, TKeys>, TSrcObj>
ReplaceValuesSwapped(TSrcObj, TKeys, TNewValue) == Merge(Obj(TNewValue, TKeys), TSrcObj)

\* ReplaceValues<TSrcObj, TKeys, TNewValue> = Merge<TSrcObj, Obj<TNewValue, TKeys>>
ReplaceValues(TSrcObj, TKeys, TNewValue) == Merge(TSrcObj, Obj(TNewValue, TKeys))

\* RemoveKeys<TSrcObj, TKeysUnion> = Pick<TSrcObj, Exclude<keyof TSrcObj, TKeysUnion>>
RemoveKeys(TSrcObj, TKeysUnion) ==
    Pick(TSrcObj, Exclude(KeyOf(TSrcObj), TKeysUnion))

\* Merge<Obj<TObj[TPrevKey], TNewKey>, RemoveKeys<TObj, TPrevKey>>
RenameKeySwapped(TObj, TPrevKey, TNewKey) ==
    Merge(Obj(IndexedAccess(TObj, TPrevKey), TNewKey), RemoveKeys(TObj, TPrevKey))

\* RenameKey<TObj, TPrevKey, TNewKey>
\*   = Merge<RemoveKeys<TObj, TPrevKey>, Obj<TObj[TPrevKey], TNewKey>>
RenameKey(TObj, TPrevKey, TNewKey) ==
    Merge(RemoveKeys(TObj, TPrevKey), Obj(IndexedAccess(TObj, TPrevKey), TNewKey))

(***************************************************************************)
(* ./logical and ./pick, which objects.ts imports: CanBeUndef, If and      *)
(* PickAsOptional.                                                         *)
(***************************************************************************)
\* CanBeUndef<T>: T allows undefined as a value; unknown and any do
CanBeUndef(T) == T.top \in {"any", "unknown"} \/ "undefined" \in T.prims

\* If<TCond, TIfTrue, TElse>
If(TCond, TIfTrue, TElse) == IF TCond THEN TIfTrue ELSE TElse

\* PickAsOptional<TObj, TKeys>: the properties TKeys of TObj, each optional
PickAsOptional(TObj, TKeys) ==
    [k \in TKeys |-> Prop(TObj[k].type, TRUE, TObj[k].readonly)]

(***************************************************************************)
(* OptionalLikelyUndefProps and DeepMapValues.                             *)
(***************************************************************************)
\* The unit type of the property key k, and the keys a union of them names
KeyT(k) == Prim(k)
KeysOfUnion(T) == T.prims

\* T without undefined
StripUndefined(T) ==
    IF T.top # "none" THEN T ELSE [T EXCEPT !.prims = @ \ {"undefined"}]

\* { [TKey in keyof TObj]-?: If<CanBeUndef<TObj[TKey]>, never, TKey> }
LikelyUndefKeyMapSwapped(TObj) ==
    [k \in KeyOf(TObj) |->
        [type |-> If(CanBeUndef(IndexedAccess(TObj, {k})), Never, Prim(k)),
         optional |-> FALSE, readonly |-> TObj[k].readonly]]

\* { [TKey in keyof TObj]-?: If<CanBeUndef<TObj[TKey]>, TKey, never> }: a
\* homomorphic mapped type whose `-?` makes every property required and
\* strips undefined from the type of one that was optional
LikelyUndefKeyMap(TObj) ==
    [k \in KeyOf(TObj) |->
        LET t == If(CanBeUndef(IndexedAccess(TObj, {k})), KeyT(k), Never)
        IN Prop(IF TObj[k].optional THEN StripUndefined(t) ELSE t,
                FALSE, TObj[k].readonly)]

\* PickLikelyUndefPropsAsOptional<TObj> = PickAsOptional<TObj, ValueOf<{...}>>
PickLikelyUndefPropsAsOptional(TObj) ==
    PickAsOptional(TObj, KeysOfUnion(ValueOf(LikelyUndefKeyMap(TObj))))

\* OptionalLikelyUndefProps<TObj> = Merge<TObj, PickLikelyUndefPropsAsOptional<TObj>>
OptionalLikelyUndefProps(TObj) ==
    Merge(TObj, PickLikelyUndefPropsAsOptional(TObj))

\* T extends Obj, for T other than any: Obj is Record<any, any>, whose index
\* signature of type any accepts every type but the primitives, undefined
\* and unknown
ExtendsObj(T) == T.top = "none" /\ T.prims = {}

RECURSIVE DeepMapValues(_, _)
\* TSrcObj[TKey] extends Obj ? DeepMapValues<TSrcObj[TKey], TMappedValue>
\*                           : TMappedValue
\* The conditional is not distributive (its checked type is no bare type
\* parameter); on `any` it denotes the union of both branches.  The alias
\* applied to a union of object types maps each member.
DeepMapValuesTemplate(T, TMappedValue) ==
    LET recurse == [top |-> "none", prims |-> {},
                    objs |-> {DeepMapValues(o, TMappedValue) : o \in T.objs},
                    mappedAny |-> {}]
    IN  IF T.top = "any" THEN Union(MappedAnyT(TMappedValue), TMappedValue)
        ELSE IF ExtendsObj(T) THEN recurse
        ELSE TMappedValue

\* DeepMapValues<TSrcObj, TMappedValue> = { [TKey in keyof TSrcObj]: ... }: a
\* homomorphic mapped type, which keeps each property's modifiers
DeepMapValues(TSrcObj, TMappedValue) ==
    [k \in KeyOf(TSrcObj) |->
        Prop(DeepMapValuesTemplate(TSrcObj[k].type, TMappedValue),
             TSrcObj[k].optional, TSrcObj[k].readonly)]

(***************************************************************************)
(* Argument types.                                                         *)
(***************************************************************************)
SrcValueTypes == {StringT, Union(StringT, UndefinedT), UnknownT, AnyT}
NewValueTypes == {NumberT, StringT, Union(NumberT, UndefinedT), UnknownT}

Props(Ts) == {Prop(t, o, r) : t \in Ts, o \in BOOLEAN, r \in BOOLEAN}
ObjTypes(Ps) == UNION {[ks -> Ps] : ks \in SUBSET Keys}

SrcObjTypes == ObjTypes(Props(SrcValueTypes))

\* Operands of Merge
MergeProps == {Prop(StringT, FALSE, FALSE), Prop(NumberT, TRUE, FALSE),
               Prop(UnknownT, FALSE, TRUE)}
MergeObjTypes == ObjTypes(MergeProps)

\* Arguments of DeepMapValues: object types nested MaxDepth levels deep; the
\* nested object type sits at the first key, required or optional
DeepLeafProps == {Prop(StringT, FALSE, FALSE), Prop(AnyT, FALSE, FALSE),
                  Prop(StringT, TRUE, TRUE)}
DeepValueTypes == {NumberT, UnknownT}
SpineKey == KeyNames[1]

RECURSIVE DeepObjTypes(_)
DeepObjTypes(d) ==
    IF d = 0 THEN ObjTypes(DeepLeafProps)
    ELSE LET nested == {Prop(ObjT(o), opt, FALSE) :
                            o \in DeepObjTypes(d - 1), opt \in BOOLEAN}
             OnKeys(ks) ==
                IF SpineKey \in ks
                THEN {[k \in ks |-> IF k = SpineKey THEN p ELSE g[k]] :
                        p \in DeepLeafProps \cup nested,
                        g \in [ks \ {SpineKey} -> DeepLeafProps]}
                ELSE [ks -> DeepLeafProps]
         IN UNION {OnKeys(ks) : ks \in SUBSET Keys}

(***************************************************************************)
(* The checker instantiating the aliases on one source type.               *)
(***************************************************************************)
\* No alias instantiated yet
Unset ==
    /\ arg = EmptyObj
    /\ arg3 = EmptyObj
    /\ keys = {}
    /\ keys2 = {}
    /\ newKey = {}
    /\ val = Never
    /\ op = "none"
    /\ out = EmptyObj
    /\ outv = Never

Init == src \in SrcObjTypes /\ Unset

EvalRemoveKeys ==
    /\ op = "none"
    /\ \E ks \in SUBSET KeyOf(src) :
        /\ keys' = ks
        /\ out' = RemoveKeys(src, ks)
    /\ op' = "RemoveKeys"
    /\ UNCHANGED <<src, arg, arg3, keys2, newKey, val, outv>>

\* RemoveKeys<RemoveKeys<TSrcObj, K1>, K2>
EvalRemoveKeysOfRemoveKeys ==
    /\ op = "RemoveKeys"
    /\ \E ks \in SUBSET KeyOf(out) :
        /\ keys2' = ks
        /\ out' = RemoveKeys(out, ks)
    /\ op' = "RemoveKeysOfRemoveKeys"
    /\ UNCHANGED <<src, arg, arg3, keys, newKey, val, outv>>

EvalRenameKey ==
    /\ op = "none"
    /\ \E prev \in KeyOf(src), new \in PropertyKeys :
        /\ keys' = {prev}
        /\ newKey' = {new}
        /\ out' = RenameKey(src, {prev}, {new})
    /\ op' = "RenameKey"
    /\ UNCHANGED <<src, arg, arg3, keys2, val, outv>>

EvalReplaceValues ==
    /\ op = "none"
    /\ \E ks \in SUBSET KeyOf(src), v \in NewValueTypes :
        /\ keys' = ks
        /\ val' = v
        /\ out' = ReplaceValues(src, ks, v)
    /\ op' = "ReplaceValues"
    /\ UNCHANGED <<src, arg, arg3, keys2, newKey, outv>>

EvalMapValues ==
    /\ op = "none"
    /\ \E v \in NewValueTypes :
        /\ val' = v
        /\ out' = MapValues(src, v)
    /\ op' = "MapValues"
    /\ UNCHANGED <<src, arg, arg3, keys, keys2, newKey, outv>>

\* ValueOf<MapValues<TSrcObj, TMappedValue>>
EvalValueOfMapValues ==
    /\ op = "MapValues"
    /\ outv' = ValueOf(out)
    /\ op' = "ValueOfMapValues"
    /\ UNCHANGED <<src, arg, arg3, keys, keys2, newKey, val, out>>

EvalOptionalLikelyUndefProps ==
    /\ op = "none"
    /\ out' = OptionalLikelyUndefProps(src)
    /\ op' = "OptionalLikelyUndefProps"
    /\ UNCHANGED <<src, arg, arg3, keys, keys2, newKey, val, outv>>

Next ==
    \/ EvalRemoveKeys
    \/ EvalRemoveKeysOfRemoveKeys
    \/ EvalRenameKey
    \/ EvalReplaceValues
    \/ EvalMapValues
    \/ EvalValueOfMapValues
    \/ EvalOptionalLikelyUndefProps

Spec == Init /\ [][Next]_vars

(***************************************************************************)
(* The checker instantiating Merge, alone and nested.                      *)
(***************************************************************************)
InitMerge == src \in MergeObjTypes /\ Unset

EvalMerge ==
    /\ op = "none"
    /\ \E o2 \in MergeObjTypes :
        /\ arg' = o2
        /\ out' = Merge(src, o2)
    /\ op' = "Merge"
    /\ UNCHANGED <<src, arg3, keys, keys2, newKey, val, outv>>

\* Merge<Merge<TObj1, TObj2>, TObj3>
EvalMergeOfMerge ==
    /\ op = "Merge"
    /\ \E o3 \in MergeObjTypes :
        /\ arg3' = o3
        /\ out' = Merge(out, o3)
    /\ op' = "MergeOfMerge"
    /\ UNCHANGED <<src, arg, keys, keys2, newKey, val, outv>>

NextMerge == EvalMerge \/ EvalMergeOfMerge

SpecMerge == InitMerge /\ [][NextMerge]_vars

(***************************************************************************)
(* The checker instantiating DeepMapValues.                                *)
(***************************************************************************)
InitDeep == src \in DeepObjTypes(MaxDepth) /\ Unset

EvalDeepMapValues ==
    /\ op = "none"
    /\ \E v \in DeepValueTypes :
        /\ val' = v
        /\ out' = DeepMapValues(src, v)
    /\ op' = "DeepMapValues"
    /\ UNCHANGED <<src, arg, arg3, keys, keys2, newKey, outv>>

NextDeep == EvalDeepMapValues

SpecDeep == InitDeep /\ [][NextDeep]_vars

(***************************************************************************)
(* Properties.                                                             *)
(***************************************************************************)
StringOrUndefinedT == Union(StringT, UndefinedT)

\* C1: Merge<R1, R2> has the keys of R1 and of R2; a key of R2 has R2's
\* property (type and modifiers), a key of R1 alone has R1's property.
C1_MergeRightWins ==
    op = "Merge" =>
        /\ KeyOf(out) = KeyOf(src) \cup KeyOf(arg)
        /\ \A k \in KeyOf(arg) : out[k] = arg[k]
        /\ \A k \in KeyOf(src) \ KeyOf(arg) : out[k] = src[k]

C1_Witness ==
    /\ op = "Merge"
    /\ KeyOf(src) \ KeyOf(arg) # {}
    /\ \E k \in KeyOf(src) \cap KeyOf(arg) :
        /\ src[k].type # arg[k].type
        /\ src[k].optional # arg[k].optional

\* C2: the empty object type is a right and a left identity of Merge.
C2_MergeEmptyIdentity ==
    op = "Merge" =>
        /\ arg = EmptyObj => out = src
        /\ src = EmptyObj => out = arg

C2_Witness ==
    /\ op = "Merge"
    /\ arg = EmptyObj
    /\ \E k \in KeyOf(src) : src[k].optional
    /\ \E k \in KeyOf(src) : src[k].readonly

\* C3: RenameKey<R, K, K> with K a key of R is R: the same keys, and for
\* every key the same type and the same modifiers.
C3_RenameToItselfIsIdentity ==
    (op = "RenameKey" /\ newKey = keys) => out = src

\* C4: OptionalLikelyUndefProps<R> has the keys and the types of R; a key is
\* optional exactly when its type in R allows undefined (any and unknown do)
\* or it was optional; { a: string, b: string | undefined } gives
\* { a: string, b?: string | undefined }.
AdmitsUndefined(t) == t.top = "any" \/ t.top = "unknown" \/ "undefined" \in t.prims

C4_Example == [a |-> Prop(StringT, FALSE, FALSE), b |-> Prop(StringOrUndefinedT, FALSE, FALSE)]
C4_ExampleResult == [a |-> Prop(StringT, FALSE, FALSE), b |-> Prop(StringOrUndefinedT, TRUE, FALSE)]

C4_OptionalWhereUndefined ==
    op = "OptionalLikelyUndefProps" =>
        /\ KeyOf(out) = KeyOf(src)
        /\ \A k \in KeyOf(src) :
            /\ out[k].type = src[k].type
            /\ out[k].optional <=> (AdmitsUndefined(src[k].type) \/ src[k].optional)
        /\ src = C4_Example => out = C4_ExampleResult

C4_Witness ==
    /\ op = "OptionalLikelyUndefProps"
    /\ src = C4_Example
    /\ out["b"].optional
    /\ ~out["a"].optional

\* C5: RemoveKeys<R, K> has the keys of R outside K with R's properties, and
\* RemoveKeys<RemoveKeys<R, K1>, K2> is RemoveKeys<R, K1 | K2> for disjoint
\* K1 and K2.
C5_RemoveKeysComposes ==
    /\ op = "RemoveKeys" =>
        /\ KeyOf(out) = KeyOf(src) \ keys
        /\ \A k \in KeyOf(out) : out[k] = src[k]
    /\ op = "RemoveKeysOfRemoveKeys" =>
        /\ keys \cap keys2 = {}
        /\ out = RemoveKeys(src, keys \cup keys2)
        /\ KeyOf(out) = KeyOf(src) \ (keys \cup keys2)
        /\ \A k \in KeyOf(out) : out[k] = src[k]

C5_Witness ==
    /\ op = "RemoveKeysOfRemoveKeys"
    /\ keys # {}
    /\ keys2 # {}

\* C6: MapValues<R, X> has the keys of R, each of type X, and
\* ValueOf<MapValues<R, X>> is X when R has a key.
C6_ValueOfMapValues ==
    /\ op = "MapValues" =>
        /\ KeyOf(out) = KeyOf(src)
        /\ \A k \in KeyOf(out) : out[k].type = val
    /\ (op = "ValueOfMapValues" /\ KeyOf(src) # {}) => outv = val

C6_Witness ==
    /\ op = "ValueOfMapValues"
    /\ \E k \in KeyOf(src) : src[k].optional
    /\ ~AdmitsUndefined(val)
    /\ outv = val

\* C7: DeepMapValues<R, X> has the key tree of R: a key whose type in R is an
\* object type has the transformed object type, every other key has X.
IsObjType(t) == t.top = "none" /\ t.prims = {} /\ t.mappedAny = {} /\ Cardinality(t.objs) = 1

RECURSIVE SameKeyTree(_, _, _)
SameKeyTree(R, D, X) ==
    /\ KeyOf(D) = KeyOf(R)
    /\ \A k \in KeyOf(R) :
        IF IsObjType(R[k].type)
        THEN /\ IsObjType(D[k].type)
             /\ \A r \in R[k].type.objs : \A d \in D[k].type.objs : SameKeyTree(r, d, X)
        ELSE D[k].type = IF D[k].optional THEN Union(X, UndefinedT) ELSE X

C7_DeepMapValuesKeepsKeyTree ==
    op = "DeepMapValues" => SameKeyTree(src, out, val)

\* C8: ReplaceValues<R, K, V> has the keys of R; a key of K has type V, every
\* other key has R's property.
C8_ReplaceValuesFrame ==
    op = "ReplaceValues" =>
        /\ KeyOf(out) = KeyOf(src)
        /\ \A k \in keys : out[k].type = val
        /\ \A k \in KeyOf(src) \ keys : out[k] = src[k]

C8_Witness ==
    /\ op = "ReplaceValues"
    /\ keys # {}
    /\ KeyOf(src) \ keys # {}
    /\ \E k \in keys : src[k].type # val

\* C9: RenameKey<R, OldKey, NewKey> has the keys of R without OldKey and with
\* NewKey; NewKey has the type R[OldKey], also when R had a key NewKey, and
\* every other key has R's property.
C9_RenameKeyBinds ==
    op = "RenameKey" =>
        /\ KeyOf(out) = (KeyOf(src) \ keys) \cup newKey
        /\ \A k \in newKey : out[k].type = IndexedAccess(src, keys)
        /\ \A k \in KeyOf(out) \ newKey : out[k] = src[k]

C9_Witness ==
    /\ op = "RenameKey"
    /\ newKey # keys
    /\ \E k \in newKey \cap KeyOf(src) :
        /\ src[k].type # IndexedAccess(src, keys)
        /\ out[k].type = IndexedAccess(src, keys)

\* C10: Merge is associative: Merge<Merge<A, B>, C> is Merge<A, Merge<B, C>>,
\* every key having the property of the right-most operand that declares it.
C10_MergeAssociative ==
    op = "MergeOfMerge" =>
        /\ out = Merge(src, Merge(arg, arg3))
        /\ KeyOf(out) = KeyOf(src) \cup KeyOf(arg) \cup KeyOf(arg3)
        /\ \A k \in KeyOf(out) :
            out[k] = IF k \in KeyOf(arg3) THEN arg3[k]
                     ELSE IF k \in KeyOf(arg) THEN arg[k]
                     ELSE src[k]

C10_Witness ==
    /\ op = "MergeOfMerge"
    /\ \E k \in KeyOf(src) \cap KeyOf(arg) \cap KeyOf(arg3) :
        /\ src[k] # arg[k]
        /\ arg[k] # arg3[k]
        /\ src[k] # arg3[k]
    /\ \E k \in KeyOf(arg) : k \notin KeyOf(arg3)

=============================================================================
